---- MODULE Spec2Model ----
(***************************************************************************)
(* The Express applications of data-setup (index.js, the older app kept in *)
(* addUser.js) and the dynamic CRUD router (routes/crud.js) as a state     *)
(* machine over a PostgreSQL database reached through pool.query.          *)
(*                                                                         *)
(* A request is handled in steps: an action is the code that runs between  *)
(* two awaits (the database executes the pending query, the continuation   *)
(* runs until it issues the next query or sends the response).             *)
(***************************************************************************)
EXTENDS Integers, Sequences, FiniteSets, TLC

VARIABLES
    limiter,   \* hits of the caller's address in the current window: [app, router]
    variant,   \* which app is listening: "index" (index.js) or "addUser" (addUser.js:55-263)
    session,   \* req.session of the caller's cookie: [user, redirectTo, age, stored]; age is
               \* the minutes since the cookie was last sent to the client, stored the
               \* minutes since the store's copy was last saved or touched
    db,        \* the database: table name -> [rows, nextId]; DOMAIN db is the catalog
    pc,        \* per request slot: the await the request is parked on
    req,       \* per request slot: the request being handled
    qs,        \* per request slot: the queries pool.query received for this request, and whether each resolved
    tmp,       \* per request slot: locals of the handler that live across awaits
    resp,      \* per request slot: the response sent
    hist       \* the last statement that changed the database (history variable)

vars == <<limiter, variant, session, db, pc, req, qs, tmp, resp, hist>>

(***************************************************************************)
(* Bounds.                                                                 *)
(***************************************************************************)
\* SERIAL ids handed out per table before the database refuses further inserts.
MaxId == 2

\* a request slot per request of the longest scripted exchange
Slots == {1, 2, 3, 4}

(***************************************************************************)
(* Strings.  TLC cannot look inside a string, so the character classes the *)
(* claims speak about are given as sets of the strings the model uses.     *)
(***************************************************************************)
Null == "<null>"
NoUser == "<none>"
NoUrl == <<>>
Undefined == "<undefined>"
NoHits == [app |-> 0, router |-> 0]
NoSession == [user |-> NoUser, redirectTo |-> NoUrl, age |-> 0, stored |-> 0]

\* cookie.maxAge, in minutes
SessionMinutes == 10

InjValue == "'); DROP TABLE items; --"
InjKey == "name) VALUES ('x'); DROP TABLE items; --"
InjTable == "items; DROP TABLE items"

\* strings made only of [A-Za-z0-9_]
SafeIdentifiers == {"items", "Items", "tables", "id", "name", "value", "nosuchcol"}

IsSafeIdentifier(s) == s \in SafeIdentifiers

\* strings that, read as SQL text, end the statement and drop table items
DropPayloads == {InjValue, InjKey, InjTable}

\* PostgreSQL folds an unquoted identifier to lower case
Fold(s) == IF s = "Items" THEN "items" ELSE s

Min(a, b) == IF a < b THEN a ELSE b

RECURSIVE JoinSegs(_, _)
\* Array.prototype.join over pieces that are themselves segment sequences
JoinSegs(parts, sep) ==
    IF Len(parts) = 0 THEN <<>>
    ELSE IF Len(parts) = 1 THEN parts[1]
    ELSE parts[1] \o <<sep>> \o JoinSegs(Tail(parts), sep)

\* `$${i + 1}` for the 0-based index i = n - 1
Placeholder(n) ==
    CASE n = 1 -> "$1" [] n = 2 -> "$2" [] n = 3 -> "$3" [] OTHER -> "$4"

(***************************************************************************)
(* Request payloads.  A JSON object is the sequence of its <<key, value>>  *)
(* pairs in insertion order, which is the order of Object.keys/values.     *)
(***************************************************************************)
ObjectKeys(data) == [i \in 1..Len(data) |-> data[i][1]]
ObjectValues(data) == [i \in 1..Len(data) |-> data[i][2]]

(***************************************************************************)
(* SQL texts, as the sequence of the template's literal pieces and the     *)
(* interpolated strings.                                                   *)
(***************************************************************************)
CatalogText == <<"SELECT table_name FROM information_schema.tables WHERE table_schema = 'public';">>

CountText(table) == <<"SELECT COUNT(*) FROM ", table>>

\* variant: the page query without its window (the plain SELECT * of the first CRUD version)
SelectTextUnlimited(table) == <<"SELECT * FROM ", table>>

SelectText(table) == <<"SELECT * FROM ", table, " LIMIT $1 OFFSET $2">>

InsertColumns(data) == JoinSegs([i \in 1..Len(data) |-> <<ObjectKeys(data)[i]>>], ", ")

InsertPlaceholders(data) ==
    JoinSegs([i \in 1..Len(ObjectValues(data)) |-> <<Placeholder(i)>>], ", ")

\* variant: the values spliced into the text instead of bound
InsertTextInlined(table, data) ==
    <<"INSERT INTO ", table, " (">> \o InsertColumns(data) \o <<") VALUES (">>
        \o JoinSegs([i \in 1..Len(data) |-> <<ObjectValues(data)[i]>>], ", ")
        \o <<") RETURNING *">>

InsertText(table, data) ==
    <<"INSERT INTO ", table, " (">> \o InsertColumns(data) \o <<") VALUES (">>
        \o InsertPlaceholders(data) \o <<") RETURNING *">>

\* variant: the values bound in the opposite order of the columns
InsertParamsReversed(data) ==
    [i \in 1..Len(data) |-> ObjectValues(data)[Len(data) + 1 - i]]

InsertParams(data) == ObjectValues(data)

UpdateSet(data) ==
    JoinSegs([i \in 1..Len(data) |-> <<ObjectKeys(data)[i], " = ", Placeholder(i)>>], ", ")

UpdateText(table, data) ==
    <<"UPDATE ", table, " SET ">> \o UpdateSet(data)
        \o <<" WHERE id = ", Placeholder(Len(ObjectValues(data)) + 1), " RETURNING *">>

DeleteText(table) == <<"DELETE FROM ", table, " WHERE id = $1">>

(***************************************************************************)
(* The database behind pool.query(text, params) -> {rows}.  Every table    *)
(* has the columns of items: id SERIAL PRIMARY KEY, name, value.  A        *)
(* statement is recognised by the literal pieces of its text.  A piece     *)
(* that carries a statement separator makes the text several statements:   *)
(* the database runs them when the query has no parameters and refuses the *)
(* text when it has (a prepared statement holds one command).              *)
(***************************************************************************)
Columns == {"name", "value"}

EmptyTable == [rows |-> <<>>, nextId |-> 1]

Failure(d, msg) == [ok |-> FALSE, rows |-> <<>>, msg |-> msg, db |-> d]

Success(d, rows) == [ok |-> TRUE, rows |-> rows, msg |-> "", db |-> d]

\* the relation an identifier in a statement names: quoted names are exact
Resolve(ident) == IF ident = "\"Items\"" THEN "Items" ELSE Fold(ident)

PlaceholderIndex(s) ==
    CASE s = "$1" -> 1 [] s = "$2" -> 2 [] s = "$3" -> 3 [] s = "$4" -> 4 [] OTHER -> 0

\* a value position of a statement: a bound parameter, or literal text
ValueAt(item, params) ==
    IF PlaceholderIndex(item) > 0 THEN params[PlaceholderIndex(item)] ELSE item

IndexOf(text, piece) ==
    IF \E i \in 1..Len(text) : text[i] = piece
    THEN CHOOSE i \in 1..Len(text) : text[i] = piece /\ \A j \in 1..(i - 1) : text[j] # piece
    ELSE 0

RowIndex(rows, id) ==
    IF \E i \in 1..Len(rows) : rows[i].id = id
    THEN CHOOSE i \in 1..Len(rows) : rows[i].id = id
    ELSE 0

RemoveAt(rows, k) == [i \in 1..(Len(rows) - 1) |-> IF i < k THEN rows[i] ELSE rows[i + 1]]

DropTable(d, name) == [t \in DOMAIN d \ {name} |-> d[t]]

AddTable(d, name) == [t \in DOMAIN d \cup {name} |-> IF t = name THEN EmptyTable ELSE d[t]]

Injected(text) == \E i \in 1..Len(text) : text[i] \in DropPayloads

\* the value a column list gives column c, Null when it does not name c
Assigned(cols, vals, c, old) ==
    IF \E i \in 1..Len(cols) : cols[i] = c
    THEN vals[CHOOSE i \in 1..Len(cols) : cols[i] = c]
    ELSE old

BadColumns(d, cols) ==
    IF Len(cols) = 0 THEN "syntax error"
    ELSE IF \E i \in 1..Len(cols) : ~IsSafeIdentifier(cols[i]) THEN "syntax error"
    ELSE IF \E i \in 1..Len(cols) : cols[i] \notin Columns THEN "column does not exist"
    ELSE IF \E i, j \in 1..Len(cols) : i # j /\ cols[i] = cols[j]
         THEN "column specified more than once"
    ELSE ""

RECURSIVE SetToSeq(_)
SetToSeq(S) ==
    IF S = {} THEN <<>>
    ELSE LET x == CHOOSE y \in S : TRUE IN <<x>> \o SetToSeq(S \ {x})

\* SELECT table_name FROM information_schema.tables WHERE table_schema = 'public'
ExecCatalog(d) ==
    LET names == SetToSeq(DOMAIN d) IN
    Success(d, [i \in 1..Len(names) |-> [table_name |-> names[i]]])

ExecCount(d, text) ==
    LET t == Resolve(text[2]) IN
    IF t \notin DOMAIN d THEN Failure(d, "relation does not exist")
    ELSE Success(d, <<[count |-> Len(d[t].rows)]>>)

ExecSelect(d, text, params) ==
    LET t == Resolve(text[2]) IN
    IF t \notin DOMAIN d THEN Failure(d, "relation does not exist")
    ELSE IF Len(text) = 2 THEN Success(d, d[t].rows)
    ELSE IF params[1] < 0 THEN Failure(d, "LIMIT must not be negative")
    ELSE IF params[2] < 0 THEN Failure(d, "OFFSET must not be negative")
    ELSE Success(d, SubSeq(d[t].rows, params[2] + 1, Min(params[2] + params[1], Len(d[t].rows))))

\* the columns of a list other than id
DataColumns(cols) == SelectSeq(cols, LAMBDA c : c # "id")

GivesId(cols) == \E i \in 1..Len(cols) : cols[i] = "id"

\* INSERT: id is the primary key; the sequence is drawn only when no id is given
ExecInsert(d, text, params) ==
    LET t == Resolve(text[2])
        p == IndexOf(text, ") VALUES (")
        n == (p - 3) \div 2
        cols == [j \in 1..n |-> text[2 + 2 * j]]
        vals == [j \in 1..n |-> ValueAt(text[p - 1 + 2 * j], params)]
    IN  IF t \notin DOMAIN d THEN Failure(d, "relation does not exist")
        ELSE IF Len(cols) = 0 THEN Failure(d, "syntax error")
        ELSE IF Len(DataColumns(cols)) > 0 /\ BadColumns(d, DataColumns(cols)) # ""
             THEN Failure(d, BadColumns(d, DataColumns(cols)))
        ELSE IF ~GivesId(cols) /\ d[t].nextId > MaxId
             THEN Failure(d, "reached maximum value of sequence")
        ELSE LET row == [id |-> Assigned(cols, vals, "id", d[t].nextId),
                         name |-> Assigned(cols, vals, "name", Null),
                         value |-> Assigned(cols, vals, "value", Null)]
             IN  IF RowIndex(d[t].rows, row.id) # 0
                 THEN Failure(d, "duplicate key value violates unique constraint")
                 ELSE Success([d EXCEPT ![t] =
                                  [rows |-> Append(@.rows, row),
                                   nextId |-> IF GivesId(cols) THEN @.nextId ELSE @.nextId + 1]],
                              <<row>>)

ExecUpdate(d, text, params) ==
    LET t == Resolve(text[2])
        p == IndexOf(text, " WHERE id = ")
        n == (p - 3) \div 4
        cols == [j \in 1..n |-> text[4 * j]]
        vals == [j \in 1..n |-> ValueAt(text[4 * j + 2], params)]
        id == ValueAt(text[p + 1], params)
    IN  IF t \notin DOMAIN d THEN Failure(d, "relation does not exist")
        ELSE IF BadColumns(d, cols) # "" THEN Failure(d, BadColumns(d, cols))
        ELSE LET k == RowIndex(d[t].rows, id) IN
             IF k = 0 THEN Success(d, <<>>)
             ELSE LET row == [id |-> id,
                              name |-> Assigned(cols, vals, "name", d[t].rows[k].name),
                              value |-> Assigned(cols, vals, "value", d[t].rows[k].value)]
                  IN  Success([d EXCEPT ![t].rows[k] = row], <<row>>)

ExecDelete(d, text, params) ==
    LET t == Resolve(text[2])
        k == IF t \in DOMAIN d THEN RowIndex(d[t].rows, params[1]) ELSE 0
    IN  IF t \notin DOMAIN d THEN Failure(d, "relation does not exist")
        ELSE IF k = 0 THEN Success(d, <<>>)
        ELSE Success([d EXCEPT ![t].rows = RemoveAt(@, k)], <<>>)

ExecCreate(d, text) ==
    LET t == Resolve(text[2]) IN
    IF ~(IsSafeIdentifier(text[2]) \/ text[2] = "\"Items\"") THEN Failure(d, "syntax error")
    ELSE IF t \in DOMAIN d THEN Failure(d, "relation already exists")
    ELSE Success(AddTable(d, t), <<>>)

ExecDrop(d, text) ==
    LET t == Resolve(text[2]) IN
    IF t \notin DOMAIN d THEN Failure(d, "table does not exist")
    ELSE Success(DropTable(d, t), <<>>)

\* what the database may answer to pool.query(text, params)
Outcomes(d, text, params) ==
    {Failure(d, "connection terminated")} \cup
    IF Injected(text)
    THEN IF Len(params) > 0
         THEN {Failure(d, "cannot insert multiple commands into a prepared statement")}
         ELSE {Failure(d, "syntax error"), Success(DropTable(d, "items"), <<>>)}
    ELSE CASE text[1] = CatalogText[1] -> {ExecCatalog(d)}
           [] text[1] = "SELECT COUNT(*) FROM " -> {ExecCount(d, text)}
           [] text[1] = "SELECT * FROM " -> {ExecSelect(d, text, params)}
           [] text[1] = "INSERT INTO " -> {ExecInsert(d, text, params)}
           [] text[1] = "UPDATE " -> {ExecUpdate(d, text, params)}
           [] text[1] = "DELETE FROM " -> {ExecDelete(d, text, params)}
           [] text[1] = "CREATE TABLE " -> {ExecCreate(d, text)}
           [] text[1] = "DROP TABLE " -> {ExecDrop(d, text)}
           [] OTHER -> {Failure(d, "syntax error")}

(***************************************************************************)
(* Requests and responses.                                                 *)
(***************************************************************************)
\* a query-string parameter as it arrives: absent, not a number, or digits
Absent == [k |-> "absent", n |-> 0]
Text == [k |-> "text", n |-> 0]
Num(n) == [k |-> "int", n |-> n]

NoBody == [kind |-> "none"]
Json(data) == [kind |-> "json", data |-> data]

NoReq ==
    [method |-> "NONE", path |-> <<>>, page |-> Absent, limit |-> Absent,
     download |-> Undefined, body |-> NoBody, cookie |-> "honoured"]
NoResp == [status |-> 0, kind |-> "none"]
NoRow == [id |-> 0, name |-> Null, value |-> Null]
NoHist == [op |-> "none", table |-> "", row |-> NoRow, before |-> 0]
NoTmp == [user |-> NoUser, handler |-> "none", tableNames |-> <<>>, totalItems |-> 0,
          logged |-> <<>>]

Redirect(url) == [status |-> 302, kind |-> "redirect", location |-> url]
ErrorJson(status, message) == [status |-> status, kind |-> "error", error |-> message]

\* req.body of a JSON route: body-parser leaves {} when no object was sent
BodyData(q) == IF q.body.kind = "json" THEN q.body.data ELSE <<>>

\* req.params.table and req.params.id of /api/:table and /api/:table/:id
TableParam(q) == q.path[2]
IdParam(q) == q.path[3]

(***************************************************************************)
(* Pagination (crud.js:359-361, 368).                                      *)
(***************************************************************************)
DefaultPage == 1
DefaultLimit == 10

\* parseInt of a query parameter: NaN unless it starts with digits
ParseInt(raw) == [nan |-> raw.k # "int", n |-> raw.n]

\* parseInt(x) || d: NaN and 0 are falsy
OrDefault(parsed, d) == IF parsed.nan \/ parsed.n = 0 THEN d ELSE parsed.n

Page(q) == OrDefault(ParseInt(q.page), DefaultPage)
Limit(q) == OrDefault(ParseInt(q.limit), DefaultLimit)
\* variant: the offset counted in pages, not rows
OffsetInPages(page, limit) == page - 1

\* variant: the window of the page after the one asked for
OffsetOfNextPage(page, limit) == page * limit

Offset(page, limit) == (page - 1) * limit

\* variant: Math.floor
TotalPagesFloor(totalItems, limit) == totalItems \div limit

\* Math.ceil(totalItems / limit), limit # 0
TotalPages(totalItems, limit) ==
    IF limit > 0 THEN (totalItems + limit - 1) \div limit
    ELSE 0 - (totalItems \div (0 - limit))

SelectParams(q) == <<Limit(q), Offset(Page(q), Limit(q))>>

(***************************************************************************)
(* Login (index.js:36-50, 111-132; addUser.js:87-96, 138-150).             *)
(***************************************************************************)
Hash(password) == <<"bcrypt", password>>

\* users.json: hashes written by addUser.js for index.js, plain text for the older app
users == IF variant = "index" THEN [admin |-> Hash("secret")] ELSE [admin |-> "secret"]

KnownUser(username) == username \in DOMAIN users

\* users[username] && (await bcrypt.compare(password, users[username]))
CredentialsOk(username, password) ==
    KnownUser(username) /\
        IF variant = "index" THEN users[username] = Hash(password)
        ELSE users[username] = password

\* bcrypt.compare rejects when the password is not a string
CompareThrows(username, password) ==
    variant = "index" /\ KnownUser(username) /\ password = Undefined

(***************************************************************************)
(* Routing: the first registered route that matches handles the request.   *)
(***************************************************************************)
\* routes/crud.js:357-589, paths relative to /api, in registration order
Router(method, path) ==
    IF method = "GET" /\ Len(path) = 2 THEN "get"
    ELSE IF method = "POST" /\ Len(path) = 2 THEN "post"
    ELSE IF method = "PUT" /\ Len(path) = 3 THEN "put"
    ELSE IF method = "DELETE" /\ Len(path) = 3 THEN "delete"
    ELSE IF method = "POST" /\ path = <<"api", "create-table">> THEN "createTable"
    ELSE "notFound"

\* variant: the router mounted before the app's own /api routes
IndexRouteRouterFirst(method, path) ==
    IF method = "GET" /\ path = <<"login">> THEN "loginPage"
    ELSE IF method = "POST" /\ path = <<"login">> THEN "login"
    ELSE IF Len(path) >= 1 /\ path[1] = "api" THEN Router(method, path)
    ELSE IF Len(path) >= 1 /\ path[1] = "api-docs" THEN "docs"
    ELSE IF method = "GET" /\ path = <<"sql-playground">> THEN "page"
    ELSE IF method = "GET" /\ path = <<"logout">> THEN "logout"
    ELSE "notFound"

\* index.js:105-244
IndexRoute(method, path) ==
    IF method = "GET" /\ path = <<"login">> THEN "loginPage"
    ELSE IF method = "POST" /\ path = <<"login">> THEN "login"
    ELSE IF method = "GET" /\ path = <<"api", "tables">> THEN "listTables"
    ELSE IF method = "POST" /\ path = <<"api", "tables">> THEN "createTableApp"
    ELSE IF method = "POST" /\ path = <<"api", "sql-playground">> THEN "sqlPlayground"
    ELSE IF Len(path) >= 1 /\ path[1] = "api" THEN Router(method, path)
    ELSE IF Len(path) >= 1 /\ path[1] = "api-docs" THEN "docs"
    ELSE IF method = "GET" /\ path = <<"sql-playground">> THEN "page"
    ELSE IF method = "GET" /\ path = <<"logout">> THEN "logout"
    ELSE "notFound"

\* addUser.js:132-254
AddUserRoute(method, path) ==
    IF method = "GET" /\ path = <<"login">> THEN "loginPage"
    ELSE IF method = "POST" /\ path = <<"login">> THEN "login"
    ELSE IF Len(path) >= 1 /\ path[1] = "api-docs" THEN "docs"
    ELSE IF method = "GET" /\ path = <<"sql-playground">> THEN "page"
    ELSE IF method = "GET" /\ path = <<"logout">> THEN "logout"
    ELSE IF Len(path) >= 1 /\ path[1] = "api" THEN Router(method, path)
    ELSE "notFound"

Handler(method, path) ==
    IF variant = "index" THEN IndexRoute(method, path) ELSE AddUserRoute(method, path)

\* whether requireLogin runs before the handler
IndexGated(method, path) ==
    \/ Len(path) >= 1 /\ path[1] \in {"api", "api-docs"}
    \/ method = "GET" /\ path = <<"sql-playground">>

AddUserGated(method, path) ==
    \/ Len(path) >= 1 /\ path[1] = "api-docs"
    \/ method = "GET" /\ path = <<"sql-playground">>

Gated(method, path) ==
    IF variant = "index" THEN IndexGated(method, path) ELSE AddUserGated(method, path)

\* index.js:154: !tableName || !columns || !Array.isArray(columns)
InvalidCreatePayload(q) == q.body.kind # "create" \/ q.body.tableName = Undefined

\* index.js:158-167
ColumnDefinitions(columns) ==
    JoinSegs([i \in 1..Len(columns) |->
                <<columns[i].name, " ", columns[i].type, " ",
                  IF columns[i].required THEN "NOT NULL" ELSE "">>], ", ")

CreateTableQuery(tableName, columns) ==
    <<"CREATE TABLE ", tableName, " ( id SERIAL PRIMARY KEY, ">>
        \o ColumnDefinitions(columns) \o <<" );">>

\* validTables.rows.map(row => row.table_name)
TableNames(rows) == [i \in 1..Len(rows) |-> rows[i].table_name]

\* variant: a comparison that ignores case
IncludesIgnoringCase(tableNames, table) ==
    \E i \in 1..Len(tableNames) : Fold(tableNames[i]) = Fold(table)

\* tableNames.includes(table)
Includes(tableNames, table) == \E i \in 1..Len(tableNames) : tableNames[i] = table

(***************************************************************************)
(* Actions.                                                                *)
(***************************************************************************)
Respond(r, response) ==
    /\ resp' = [resp EXCEPT ![r] = response]
    /\ pc' = [pc EXCEPT ![r] = "done"]

\* pool.query(text, params) answered with outcome o
Query(r, text, params, o) ==
    /\ o \in Outcomes(db, text, params)
    /\ qs' = [qs EXCEPT ![r] = Append(@, [text |-> text, params |-> params, ok |-> o.ok])]
    /\ db' = o.db

Changed(o) == IF o.db = db THEN hist ELSE [NoHist EXCEPT !.op = "other"]

\* maxAge has passed: the browser drops the cookie, the store drops its copy
Expired(age) == age > SessionMinutes

\* the client sends the session cookie with request q
SendsCookie(q) == q.cookie = "replayed" \/ ~Expired(session.age)

\* req.session as the session middleware hands it to the routes: the store's
\* copy when the cookie names one that has not expired, else a new empty one
Live(q) == IF SendsCookie(q) /\ ~Expired(session.stored) THEN session ELSE NoSession

\* the end of a response touches the store's copy of the session
Touched(s) == [s EXCEPT !.stored = 0]

\* requireLogin letting the request through: _garbage and touch() have the
\* session saved and the cookie sent again; other routes only touch the store
Passed(q) ==
    IF Gated(q.method, q.path) THEN [Live(q) EXCEPT !.age = 0, !.stored = 0]
    ELSE Touched(Live(q))

\* the lines logLoginAttempt appends to login_attempts.log for the request
LoginLog(q) ==
    LET username == q.body.username
        password == q.body.password
    IN  IF CompareThrows(username, password) THEN <<>>
        ELSE IF CredentialsOk(username, password)
        THEN <<[username |-> username, status |-> "Success"]>>
        ELSE <<[username |-> IF username = Undefined THEN "Unknown" ELSE username,
                status |-> "Failure"]>>

\* POST /login
Login(r, q) ==
    LET username == q.body.username
        password == q.body.password
    IN  IF CompareThrows(username, password)
        THEN /\ Respond(r, [status |-> 500, kind |-> "text"])
             /\ session' = Touched(Live(q))
        ELSE IF CredentialsOk(username, password)
        THEN /\ session' = [user |-> username, redirectTo |-> NoUrl, age |-> 0, stored |-> 0]
             /\ Respond(r, Redirect(IF variant = "addUser" THEN <<"api-docs">>
                                    ELSE IF Live(q).redirectTo # NoUrl THEN Live(q).redirectTo
                                    ELSE <<"sql-playground">>))
        ELSE /\ Respond(r, Redirect(<<"login">>))
             /\ session' = Touched(Live(q))

\* variant: a logout that keeps the session
LogoutKeepingSession(r) ==
    /\ UNCHANGED session
    /\ Respond(r, Redirect(<<"login">>))

\* GET /logout: req.session.destroy
Logout(r) ==
    /\ session' = NoSession
    /\ Respond(r, Redirect(<<"login">>))

\* requireLogin refusing the request
Refuse(r, q) ==
    /\ session' = IF variant = "index"
                  THEN [Live(q) EXCEPT !.redirectTo = q.path, !.age = 0, !.stored = 0]
                  ELSE Touched(Live(q))
    /\ Respond(r, Redirect(<<"login">>))

\* The response is on the wire and the request's objects are dropped.
Finish(r) ==
    /\ pc[r] = "done"
    /\ pc' = [pc EXCEPT ![r] = "idle"]
    /\ req' = [req EXCEPT ![r] = NoReq]
    /\ qs' = [qs EXCEPT ![r] = <<>>]
    /\ tmp' = [tmp EXCEPT ![r] = NoTmp]
    /\ resp' = [resp EXCEPT ![r] = NoResp]
    /\ UNCHANGED <<variant, limiter, session, db, hist>>

\* The middleware chain behind the limiters, up to the request's first await.
Dispatch(r, q) ==
    /\ pc[r] = "idle"
    /\ req' = [req EXCEPT ![r] = q]
    /\ qs' = [qs EXCEPT ![r] = <<>>]
    /\ tmp' = [tmp EXCEPT ![r] = [NoTmp EXCEPT !.user = Live(q).user,
                                               !.handler = Handler(q.method, q.path),
                                               !.logged = IF Handler(q.method, q.path) = "login"
                                                          THEN LoginLog(q) ELSE <<>>]]
    /\ UNCHANGED <<variant, db, hist>>
    /\ IF Gated(q.method, q.path) /\ Live(q).user = NoUser THEN Refuse(r, q)
       ELSE CASE Handler(q.method, q.path) = "login" -> Login(r, q)
              [] Handler(q.method, q.path) = "logout" -> Logout(r)
              [] Handler(q.method, q.path) \in {"get", "post", "put", "delete"} ->
                    /\ pc' = [pc EXCEPT ![r] = "catalog"]
                    /\ resp' = [resp EXCEPT ![r] = NoResp]
                    /\ session' = Passed(q)
              [] Handler(q.method, q.path) = "listTables" ->
                    /\ pc' = [pc EXCEPT ![r] = "listTables"]
                    /\ resp' = [resp EXCEPT ![r] = NoResp]
                    /\ session' = Passed(q)
              [] Handler(q.method, q.path) = "createTableApp" ->
                    /\ IF InvalidCreatePayload(q)
                       THEN Respond(r, ErrorJson(400, <<"Invalid request payload">>))
                       ELSE /\ pc' = [pc EXCEPT ![r] = "createApp"]
                            /\ resp' = [resp EXCEPT ![r] = NoResp]
                    /\ session' = Passed(q)
              [] Handler(q.method, q.path) = "sqlPlayground" ->
                    /\ pc' = [pc EXCEPT ![r] = "sql"]
                    /\ resp' = [resp EXCEPT ![r] = NoResp]
                    /\ session' = Passed(q)
              [] Handler(q.method, q.path) \in {"page", "loginPage", "docs"} ->
                    /\ Respond(r, [status |-> 200, kind |-> "file"])
                    /\ session' = Passed(q)
              [] OTHER ->
                    /\ Respond(r, [status |-> 404, kind |-> "text"])
                    /\ session' = Passed(q)

\* A request arrives from a caller who stays within the limits and runs up to
\* its first await; the specifications that do not follow the limiter's
\* window leave its count alone.
Receive(r, q) == Dispatch(r, q) /\ UNCHANGED limiter

\* variant: the table list read once at startup and kept
ValidateTableNameCached(r) ==
    /\ pc[r] = "catalog"
    /\ tmp' = [tmp EXCEPT ![r].tableNames = <<"items">>]
    /\ IF ~Includes(<<"items">>, TableParam(req[r]))
       THEN Respond(r, ErrorJson(400, <<"Invalid table name: ", TableParam(req[r])>>))
       ELSE /\ pc' = [pc EXCEPT ![r] =
                        CASE tmp[r].handler = "get" -> "count"
                          [] tmp[r].handler = "post" -> "insert"
                          [] tmp[r].handler = "put" -> "update"
                          [] OTHER -> "delete"]
            /\ UNCHANGED resp
    /\ UNCHANGED <<variant, limiter, session, db, req, qs, hist>>

\* variant: a failed catalog query lets the request through
ValidateTableNameFailOpen(r) ==
    /\ pc[r] = "catalog"
    /\ \E o \in Outcomes(db, CatalogText, <<>>) :
        /\ Query(r, CatalogText, <<>>, o)
        /\ tmp' = [tmp EXCEPT ![r].tableNames = IF o.ok THEN TableNames(o.rows) ELSE <<>>]
        /\ IF o.ok /\ ~Includes(TableNames(o.rows), TableParam(req[r]))
           THEN Respond(r, ErrorJson(400, <<"Invalid table name: ", TableParam(req[r])>>))
           ELSE /\ pc' = [pc EXCEPT ![r] =
                            CASE tmp[r].handler = "get" -> "count"
                              [] tmp[r].handler = "post" -> "insert"
                              [] tmp[r].handler = "put" -> "update"
                              [] OTHER -> "delete"]
                /\ UNCHANGED resp
    /\ UNCHANGED <<variant, limiter, session, req, hist>>

\* validateTableName: the catalog query returns
ValidateTableName(r) ==
    /\ pc[r] = "catalog"
    /\ \E o \in Outcomes(db, CatalogText, <<>>) :
        /\ Query(r, CatalogText, <<>>, o)
        /\ IF ~o.ok
           THEN /\ Respond(r, ErrorJson(500, <<"Internal server error while validating table name.">>))
                /\ UNCHANGED tmp
           ELSE /\ tmp' = [tmp EXCEPT ![r].tableNames = TableNames(o.rows)]
                /\ IF ~Includes(TableNames(o.rows), TableParam(req[r]))
                   THEN Respond(r, ErrorJson(400, <<"Invalid table name: ", TableParam(req[r])>>))
                   ELSE /\ pc' = [pc EXCEPT ![r] =
                                    CASE tmp[r].handler = "get" -> "count"
                                      [] tmp[r].handler = "post" -> "insert"
                                      [] tmp[r].handler = "put" -> "update"
                                      [] OTHER -> "delete"]
                        /\ UNCHANGED resp
    /\ UNCHANGED <<variant, limiter, session, req, hist>>

\* variant: a failed count answered as an empty table
GetCountEmptyOnFailure(r) ==
    /\ pc[r] = "count"
    /\ \E o \in Outcomes(db, CountText(TableParam(req[r])), <<>>) :
        /\ Query(r, CountText(TableParam(req[r])), <<>>, o)
        /\ IF ~o.ok
           THEN /\ Respond(r, [status |-> 200, kind |-> "page", totalItems |-> 0,
                               currentPage |-> Page(req[r]), totalPages |-> 0, data |-> <<>>])
                /\ UNCHANGED tmp
           ELSE /\ tmp' = [tmp EXCEPT ![r].totalItems = o.rows[1].count]
                /\ pc' = [pc EXCEPT ![r] = "select"]
                /\ UNCHANGED resp
        /\ hist' = Changed(o)
    /\ UNCHANGED <<variant, limiter, session, req>>

\* variant: a failed count is taken for 0 and the page query still runs
GetCountIgnoringFailure(r) ==
    /\ pc[r] = "count"
    /\ \E o \in Outcomes(db, CountText(TableParam(req[r])), <<>>) :
        /\ Query(r, CountText(TableParam(req[r])), <<>>, o)
        /\ tmp' = [tmp EXCEPT ![r].totalItems = IF o.ok THEN o.rows[1].count ELSE 0]
        /\ pc' = [pc EXCEPT ![r] = "select"]
        /\ UNCHANGED resp
        /\ hist' = Changed(o)
    /\ UNCHANGED <<variant, limiter, session, req>>

\* router.get('/:table'): the count query returns
GetCount(r) ==
    /\ pc[r] = "count"
    /\ \E o \in Outcomes(db, CountText(TableParam(req[r])), <<>>) :
        /\ Query(r, CountText(TableParam(req[r])), <<>>, o)
        /\ IF ~o.ok
           THEN /\ Respond(r, ErrorJson(500, <<"Error fetching data from table ",
                                               TableParam(req[r]), ": ", o.msg>>))
                /\ UNCHANGED tmp
           ELSE /\ tmp' = [tmp EXCEPT ![r].totalItems = o.rows[1].count]
                /\ pc' = [pc EXCEPT ![r] = "select"]
                /\ UNCHANGED resp
        /\ hist' = Changed(o)
    /\ UNCHANGED <<variant, limiter, session, req>>

\* router.get('/:table'): the page query returns
GetSelect(r) ==
    /\ pc[r] = "select"
    /\ \E o \in Outcomes(db, SelectText(TableParam(req[r])), SelectParams(req[r])) :
        /\ Query(r, SelectText(TableParam(req[r])), SelectParams(req[r]), o)
        /\ IF ~o.ok
           THEN Respond(r, ErrorJson(500, <<"Error fetching data from table ",
                                            TableParam(req[r]), ": ", o.msg>>))
           ELSE Respond(r, [status |-> 200, kind |-> "page",
                            totalItems |-> tmp[r].totalItems,
                            currentPage |-> Page(req[r]),
                            totalPages |-> TotalPages(tmp[r].totalItems, Limit(req[r])),
                            data |-> o.rows])
        /\ hist' = Changed(o)
    /\ UNCHANGED <<variant, limiter, session, req, tmp>>

\* variant: a rejected insert answered with the fixed message of the first router
PostInsertGeneric(r) ==
    /\ pc[r] = "insert"
    /\ LET table == TableParam(req[r])
           data == BodyData(req[r])
       IN  \E o \in Outcomes(db, InsertText(table, data), InsertParams(data)) :
            /\ Query(r, InsertText(table, data), InsertParams(data), o)
            /\ IF ~o.ok
               THEN /\ Respond(r, ErrorJson(500, <<"An unexpected error occurred. Please try again.">>))
                    /\ hist' = Changed(o)
               ELSE /\ Respond(r, IF Len(o.rows) > 0
                                  THEN [status |-> 201, kind |-> "row", row |-> o.rows[1]]
                                  ELSE [status |-> 201, kind |-> "empty"])
                    /\ hist' = IF Len(o.rows) > 0
                               THEN [op |-> "insert", table |-> Resolve(table),
                                     row |-> o.rows[1],
                                     before |-> Len(db[Resolve(table)].rows)]
                               ELSE Changed(o)
    /\ UNCHANGED <<variant, limiter, session, req, tmp>>

\* router.post('/:table'): the insert returns
PostInsert(r) ==
    /\ pc[r] = "insert"
    /\ LET table == TableParam(req[r])
           data == BodyData(req[r])
       IN  \E o \in Outcomes(db, InsertText(table, data), InsertParams(data)) :
            /\ Query(r, InsertText(table, data), InsertParams(data), o)
            /\ IF ~o.ok
               THEN /\ Respond(r, ErrorJson(500, <<"Error inserting data into table ",
                                                   table, ": ", o.msg>>))
                    /\ hist' = Changed(o)
               ELSE /\ Respond(r, IF Len(o.rows) > 0
                                  THEN [status |-> 201, kind |-> "row", row |-> o.rows[1]]
                                  ELSE [status |-> 201, kind |-> "empty"])
                    /\ hist' = IF Len(o.rows) > 0
                               THEN [op |-> "insert", table |-> Resolve(table),
                                     row |-> o.rows[1],
                                     before |-> Len(db[Resolve(table)].rows)]
                               ELSE Changed(o)
    /\ UNCHANGED <<variant, limiter, session, req, tmp>>

\* variant: an update that matches no row is answered 404
PutUpdateNotFound(r) ==
    /\ pc[r] = "update"
    /\ LET table == TableParam(req[r])
           data == BodyData(req[r])
           text == UpdateText(table, data)
           params == ObjectValues(data) \o <<IdParam(req[r])>>
       IN  \E o \in Outcomes(db, text, params) :
            /\ Query(r, text, params, o)
            /\ IF ~o.ok
               THEN Respond(r, ErrorJson(500, <<"Error updating data in table ",
                                                table, ": ", o.msg>>))
               ELSE Respond(r, IF Len(o.rows) > 0
                               THEN [status |-> 200, kind |-> "row", row |-> o.rows[1]]
                               ELSE ErrorJson(404, <<"Item not found">>))
            /\ hist' = Changed(o)
    /\ UNCHANGED <<variant, limiter, session, req, tmp>>

\* router.put('/:table/:id'): the update returns
PutUpdate(r) ==
    /\ pc[r] = "update"
    /\ LET table == TableParam(req[r])
           data == BodyData(req[r])
           text == UpdateText(table, data)
           params == ObjectValues(data) \o <<IdParam(req[r])>>
       IN  \E o \in Outcomes(db, text, params) :
            /\ Query(r, text, params, o)
            /\ IF ~o.ok
               THEN Respond(r, ErrorJson(500, <<"Error updating data in table ",
                                                table, ": ", o.msg>>))
               ELSE Respond(r, IF Len(o.rows) > 0
                               THEN [status |-> 200, kind |-> "row", row |-> o.rows[1]]
                               ELSE [status |-> 200, kind |-> "empty"])
            /\ hist' = Changed(o)
    /\ UNCHANGED <<variant, limiter, session, req, tmp>>

\* variant: a delete that matches no row is answered 404
DeleteRowNotFound(r) ==
    /\ pc[r] = "delete"
    /\ LET table == TableParam(req[r])
           params == <<IdParam(req[r])>>
       IN  \E o \in Outcomes(db, DeleteText(table), params) :
            /\ Query(r, DeleteText(table), params, o)
            /\ IF ~o.ok
               THEN Respond(r, ErrorJson(500, <<"Error deleting data from table ",
                                                table, ": ", o.msg>>))
               ELSE IF o.db = db THEN Respond(r, ErrorJson(404, <<"Item not found">>))
               ELSE Respond(r, [status |-> 204, kind |-> "empty"])
            /\ hist' = Changed(o)
    /\ UNCHANGED <<variant, limiter, session, req, tmp>>

\* router.delete('/:table/:id'): the delete returns
DeleteRow(r) ==
    /\ pc[r] = "delete"
    /\ LET table == TableParam(req[r])
           params == <<IdParam(req[r])>>
       IN  \E o \in Outcomes(db, DeleteText(table), params) :
            /\ Query(r, DeleteText(table), params, o)
            /\ IF ~o.ok
               THEN Respond(r, ErrorJson(500, <<"Error deleting data from table ",
                                                table, ": ", o.msg>>))
               ELSE Respond(r, [status |-> 204, kind |-> "empty"])
            /\ hist' = Changed(o)
    /\ UNCHANGED <<variant, limiter, session, req, tmp>>

\* app.get('/api/tables'): the catalog query returns
ListTables(r) ==
    /\ pc[r] = "listTables"
    /\ \E o \in Outcomes(db, CatalogText, <<>>) :
        /\ Query(r, CatalogText, <<>>, o)
        /\ IF ~o.ok
           THEN Respond(r, ErrorJson(500, <<"Failed to fetch tables">>))
           ELSE Respond(r, [status |-> 200, kind |-> "tables", tables |-> TableNames(o.rows)])
    /\ UNCHANGED <<variant, limiter, session, req, tmp, hist>>

\* variant: a failed query answered like the other routes' failures
SqlPlaygroundGeneric(r) ==
    /\ pc[r] = "sql"
    /\ LET query == req[r].body.query IN
       \E o \in Outcomes(db, query, <<>>) :
        /\ Query(r, query, <<>>, o)
        /\ IF ~o.ok
           THEN Respond(r, ErrorJson(500, <<"Failed to execute query">>))
           ELSE Respond(r, [status |-> 200, kind |-> "rows", rows |-> o.rows])
        /\ hist' = Changed(o)
    /\ UNCHANGED <<variant, limiter, session, req, tmp>>

\* app.post('/api/sql-playground'): the caller's query returns
SqlPlayground(r) ==
    /\ pc[r] = "sql"
    /\ LET query == req[r].body.query IN
       \E o \in Outcomes(db, query, <<>>) :
        /\ Query(r, query, <<>>, o)
        /\ IF ~o.ok
           THEN Respond(r, ErrorJson(400, <<o.msg>>))
           ELSE Respond(r, [status |-> 200, kind |-> "rows", rows |-> o.rows])
        /\ hist' = Changed(o)
    /\ UNCHANGED <<variant, limiter, session, req, tmp>>

\* app.post('/api/tables'): the CREATE TABLE returns
CreateTableApp(r) ==
    /\ pc[r] = "createApp"
    /\ LET text == CreateTableQuery(req[r].body.tableName, req[r].body.columns) IN
       \E o \in Outcomes(db, text, <<>>) :
        /\ Query(r, text, <<>>, o)
        /\ IF ~o.ok
           THEN Respond(r, ErrorJson(500, <<"Failed to create table">>))
           ELSE Respond(r, [status |-> 201, kind |-> "message"])
        /\ hist' = Changed(o)
    /\ UNCHANGED <<variant, limiter, session, req, tmp>>

(***************************************************************************)
(* The first version of the router (routes/crud.js:1-257): fixed routes    *)
(* for table items behind express-validator checks, mounted by index.js.   *)
(***************************************************************************)
\* const { name, value } = req.body: the field, undefined when the body lacks it
Field(data, key) ==
    IF \E i \in 1..Len(data) : data[i][1] = key
    THEN data[CHOOSE i \in 1..Len(data) : data[i][1] = key][2]
    ELSE Undefined

\* check(field).isString().notEmpty()
IsNonEmptyString(v) == v # Undefined /\ v # ""

\* routes/crud.js:47-55: validationResult(req).isEmpty() for POST /items
ItemsPostValid(q) ==
    IsNonEmptyString(Field(BodyData(q), "name")) /\ IsNonEmptyString(Field(BodyData(q), "value"))

\* the driver sends an undefined parameter as NULL
PrepareValue(v) == IF v = Undefined THEN Null ELSE v

ItemsInsertText ==
    <<"INSERT INTO ", "items", " (", "name", ", ", "value", ") VALUES (", "$1", ", ", "$2",
      ") RETURNING *">>

ItemsUpdateText ==
    <<"UPDATE ", "items", " SET ", "name", " = ", "$1", ", ", "value", " = ", "$2",
      " WHERE id = ", "$3", " RETURNING *">>

\* [name, value] and [name, value, id]
ItemsInsertParams(q) ==
    <<PrepareValue(Field(BodyData(q), "name")), PrepareValue(Field(BodyData(q), "value"))>>

ItemsUpdateParams(q) == ItemsInsertParams(q) \o <<IdParam(q)>>

ItemsRoute(method, path) ==
    IF method = "POST" /\ path = <<"api", "items">> THEN "itemsPost"
    ELSE IF method = "PUT" /\ Len(path) = 3 /\ path[1] = "api" /\ path[2] = "items" THEN "itemsPut"
    ELSE "notFound"

GenericError == ErrorJson(500, <<"An unexpected error occurred. Please try again.">>)

\* A request for the first router arrives: requireLogin, then the validators.
ItemsReceive(r, q) ==
    /\ pc[r] = "idle"
    /\ req' = [req EXCEPT ![r] = q]
    /\ qs' = [qs EXCEPT ![r] = <<>>]
    /\ tmp' = [tmp EXCEPT ![r] = [NoTmp EXCEPT !.user = Live(q).user,
                                               !.handler = ItemsRoute(q.method, q.path)]]
    /\ UNCHANGED <<variant, limiter, db, hist>>
    /\ IF Live(q).user = NoUser THEN Refuse(r, q)
       ELSE /\ session' = [Live(q) EXCEPT !.age = 0, !.stored = 0]
            /\ CASE ItemsRoute(q.method, q.path) = "itemsPost" ->
                      IF ~ItemsPostValid(q)
                      THEN Respond(r, [status |-> 400, kind |-> "errors"])
                      ELSE /\ pc' = [pc EXCEPT ![r] = "itemsInsert"]
                           /\ resp' = [resp EXCEPT ![r] = NoResp]
                 [] ItemsRoute(q.method, q.path) = "itemsPut" ->
                      /\ pc' = [pc EXCEPT ![r] = "itemsUpdate"]
                      /\ resp' = [resp EXCEPT ![r] = NoResp]
                 [] OTHER -> Respond(r, [status |-> 404, kind |-> "text"])

\* router.post('/items'): the insert returns
ItemsPost(r) ==
    /\ pc[r] = "itemsInsert"
    /\ \E o \in Outcomes(db, ItemsInsertText, ItemsInsertParams(req[r])) :
        /\ Query(r, ItemsInsertText, ItemsInsertParams(req[r]), o)
        /\ IF ~o.ok
           THEN Respond(r, GenericError)
           ELSE Respond(r, [status |-> 201, kind |-> "row", row |-> o.rows[1]])
        /\ hist' = Changed(o)
    /\ UNCHANGED <<variant, limiter, session, req, tmp>>

\* router.put('/items/:id'): the update returns
ItemsPut(r) ==
    /\ pc[r] = "itemsUpdate"
    /\ \E o \in Outcomes(db, ItemsUpdateText, ItemsUpdateParams(req[r])) :
        /\ Query(r, ItemsUpdateText, ItemsUpdateParams(req[r]), o)
        /\ IF ~o.ok
           THEN Respond(r, GenericError)
           ELSE Respond(r, IF Len(o.rows) > 0
                           THEN [status |-> 200, kind |-> "row", row |-> o.rows[1]]
                           ELSE [status |-> 200, kind |-> "empty"])
        /\ hist' = Changed(o)
    /\ UNCHANGED <<variant, limiter, session, req, tmp>>

(***************************************************************************)
(* The requests the callers send.                                          *)
(***************************************************************************)
Get(path, page, limit) ==
    [method |-> "GET", path |-> path, page |-> page, limit |-> limit,
     download |-> Undefined, body |-> NoBody, cookie |-> "honoured"]

Send(method, path, body) ==
    [method |-> method, path |-> path, page |-> Absent, limit |-> Absent,
     download |-> Undefined, body |-> body, cookie |-> "honoured"]

\* the request q with ?download=v in its query string
Download(q, v) == [q EXCEPT !.download = v]

PName == <<<<"name", "A">>>>
PBoth == <<<<"name", "A">>, <<"value", "1">>>>
PRename == <<<<"name", "y">>>>
PValue == <<<<"value", "2">>>>
PInj == <<<<"name", InjValue>>>>
PEmpty == <<>>
PBadKey == <<<<InjKey, "A">>>>
PUnknown == <<<<"nosuchcol", "A">>>>
PWithId == <<<<"id", 1>>, <<"name", "A">>>>

ItemColumns == <<[name |-> "name", type |-> "TEXT", required |-> FALSE],
                 [name |-> "value", type |-> "TEXT", required |-> FALSE]>>

\* the body of a create-table request: {tableName, columns}
PCreate == <<<<"tableName", "notes">>, <<"columns", ItemColumns>>>>

Pages == {Absent, Text, Num(-1), Num(0), Num(1), Num(2), Num(3)}
Limits == {Absent, Text, Num(-1), Num(0), Num(1), Num(2)}

LoginRequests ==
    {Send("POST", <<"login">>, [kind |-> "login", username |-> u, password |-> p]) :
        u \in {"admin", "mallory", Undefined}, p \in {"secret", "guess", Undefined}}

SessionRequests ==
    LoginRequests \cup {Get(<<"logout">>, Absent, Absent), Get(<<"sql-playground">>, Absent, Absent),
                        Get(<<"login">>, Absent, Absent), Get(<<"api-docs">>, Absent, Absent)}

AdminRequests ==
    {Get(<<"api", "tables">>, Absent, Absent),
     Send("POST", <<"api", "tables">>, [kind |-> "create", tableName |-> "items",
                                        columns |-> ItemColumns]),
     Send("POST", <<"api", "tables">>, [kind |-> "create", tableName |-> Undefined,
                                        columns |-> <<>>]),
     Send("POST", <<"api", "sql-playground">>, [kind |-> "sql", query |-> <<"DROP TABLE ", "items">>]),
     Send("POST", <<"api", "sql-playground">>, [kind |-> "sql", query |-> <<"SELECT * FROM ", "items">>]),
     Send("POST", <<"api", "sql-playground">>, [kind |-> "sql", query |-> <<"not sql">>]),
     Download(Send("POST", <<"api", "sql-playground">>,
                   [kind |-> "sql", query |-> <<"SELECT * FROM ", "items">>]), "csv"),
     Send("POST", <<"api", "create-table">>, Json(PCreate))}

ReadRequests ==
    {Get(<<"api", t>>, Absent, Absent) : t \in {"items", "Items", InjTable}}

WriteRequests ==
    {Send("POST", <<"api", "items">>, Json(d)) : d \in {PName, PInj, PEmpty, PBadKey, PUnknown, PWithId}}
        \cup {Send("POST", <<"api", t>>, Json(PName)) : t \in {"Items", InjTable}}
        \cup {Send("PUT", <<"api", "items", i>>, Json(d)) :
                i \in 1..MaxId, d \in {PValue, PInj, PEmpty, PBadKey}}
        \cup {Send("DELETE", <<"api", "items", i>>, NoBody) : i \in 1..MaxId}

Requests == SessionRequests \cup AdminRequests \cup ReadRequests \cup WriteRequests

\* the requests of the pagination specification
PageRequests ==
    {Get(<<"api", "items">>, p, l) : p \in Pages, l \in Limits}
        \cup {Send("POST", <<"api", "items">>, Json(PName)),
              Send("DELETE", <<"api", "items", 1>>, NoBody)}

\* the requests of the first router's specification
ItemsRequests ==
    {Send("POST", <<"api", "items">>, Json(d)) : d \in {PBoth, PName, PEmpty}}
        \cup {Send("PUT", <<"api", "items", i>>, Json(d)) :
                i \in 1..MaxId, d \in {PRename, PValue, PBoth, PEmpty}}
        \cup {Get(<<"api", "nothing">>, Absent, Absent)}

\* the requests of the scripted exchanges
ScenarioRequests ==
    {Send("POST", <<"api", "items">>, Json(PBoth)),
     Get(<<"api", "items">>, Num(1), Num(10)),
     Get(<<"api", "items">>, Absent, Absent)}
        \cup {Send("DELETE", <<"api", "items", i>>, NoBody) : i \in 1..MaxId}

DropItems ==
    Send("POST", <<"api", "sql-playground">>, [kind |-> "sql", query |-> <<"DROP TABLE ", "items">>])

CreateItems ==
    Send("POST", <<"api", "tables">>, [kind |-> "create", tableName |-> "items",
                                       columns |-> ItemColumns])

ReadItems == Get(<<"api", "items">>, Absent, Absent)

\* the requests of the schema-change exchanges
SchemaRequests == {DropItems, CreateItems, ReadItems}

\* the requests of the concurrent callers
ConcurrentRequests ==
    {ReadItems, DropItems, Send("POST", <<"api", "items">>, Json(PName)),
     Send("DELETE", <<"api", "items", 1>>, NoBody)}

\* the requests in flight at a time
Concurrent == {1, 2}

(***************************************************************************)
(* Specifications.  Spec: either app, one request at a time.  PageSpec:    *)
(* index.js with the caller logged in, reading pages of items.  ItemsSpec: *)
(* index.js over the first router.  ScenarioSpec: four requests in a row.  *)
(***************************************************************************)
Init ==
    /\ variant \in {"index", "addUser"}
    /\ limiter = NoHits
    /\ session = NoSession
    /\ db = [items |-> EmptyTable]
    /\ pc = [r \in Slots |-> "idle"]
    /\ req = [r \in Slots |-> NoReq]
    /\ qs = [r \in Slots |-> <<>>]
    /\ tmp = [r \in Slots |-> NoTmp]
    /\ resp = [r \in Slots |-> NoResp]
    /\ hist = NoHist

Step(r) ==
    \/ ValidateTableName(r)
    \/ GetCount(r)
    \/ GetSelect(r)
    \/ PostInsert(r)
    \/ PutUpdate(r)
    \/ DeleteRow(r)
    \/ ListTables(r)
    \/ CreateTableApp(r)
    \/ SqlPlayground(r)
    \/ Finish(r)

Next ==
    \/ \E q \in Requests : Receive(1, q)
    \/ Step(1)

Spec == Init /\ [][Next]_vars

PageInit ==
    /\ variant = "index"
    /\ limiter = NoHits
    /\ session = [NoSession EXCEPT !.user = "admin"]
    /\ db = [items |-> EmptyTable]
    /\ pc = [r \in Slots |-> "idle"]
    /\ req = [r \in Slots |-> NoReq]
    /\ qs = [r \in Slots |-> <<>>]
    /\ tmp = [r \in Slots |-> NoTmp]
    /\ resp = [r \in Slots |-> NoResp]
    /\ hist = NoHist

PageNext ==
    \/ \E q \in PageRequests : Receive(1, q)
    \/ ValidateTableName(1)
    \/ GetCount(1)
    \/ GetSelect(1)
    \/ PostInsert(1)
    \/ DeleteRow(1)
    \/ Finish(1)

PageSpec == PageInit /\ [][PageNext]_vars

\* index.js mounting the first router, the caller logged in
ItemsNext ==
    \/ \E q \in ItemsRequests : ItemsReceive(1, q)
    \/ ItemsPost(1)
    \/ ItemsPut(1)
    \/ Finish(1)

ItemsSpec == PageInit /\ [][ItemsNext]_vars

\* index.js, the caller logged in, sending one request after the other's
\* response; request k is kept in slot k.
ScenarioNext ==
    \/ \E r \in Slots, q \in ScenarioRequests :
          (IF r = 1 THEN TRUE ELSE pc[r - 1] = "done") /\ Receive(r, q)
    \/ \E r \in Slots : ValidateTableName(r)
    \/ \E r \in Slots : GetCount(r)
    \/ \E r \in Slots : GetSelect(r)
    \/ \E r \in Slots : PostInsert(r)
    \/ \E r \in Slots : DeleteRow(r)

ScenarioSpec == PageInit /\ [][ScenarioNext]_vars

\* index.js, the caller logged in, dropping, creating and reading items, one
\* request after the other's response; request k is kept in slot k.
SchemaNext ==
    \/ \E r \in Slots, q \in SchemaRequests :
          (IF r = 1 THEN TRUE ELSE pc[r - 1] = "done") /\ Receive(r, q)
    \/ \E r \in Slots : ValidateTableName(r)
    \/ \E r \in Slots : GetCount(r)
    \/ \E r \in Slots : GetSelect(r)
    \/ \E r \in Slots : SqlPlayground(r)
    \/ \E r \in Slots : CreateTableApp(r)

SchemaSpec == PageInit /\ [][SchemaNext]_vars

\* index.js, the caller logged in, two requests in flight: the event loop
\* runs the continuation of either request after each await.
ConcurrentNext ==
    \/ \E r \in Concurrent, q \in ConcurrentRequests : Receive(r, q)
    \/ \E r \in Concurrent : ValidateTableName(r)
    \/ \E r \in Concurrent : GetCount(r)
    \/ \E r \in Concurrent : GetSelect(r)
    \/ \E r \in Concurrent : PostInsert(r)
    \/ \E r \in Concurrent : DeleteRow(r)
    \/ \E r \in Concurrent : SqlPlayground(r)
    \/ \E r \in Concurrent : Finish(r)

ConcurrentSpec == PageInit /\ [][ConcurrentNext]_vars

(***************************************************************************)
(* Properties.                                                             *)
(***************************************************************************)
Done(r) == pc[r] = "done"

IsApiRequest(q) == Len(q.path) >= 1 /\ q.path[1] = "api"

IsDynamic(r) == tmp[r].handler \in {"get", "post", "put", "delete"}

HandlerPcs == {"count", "insert", "update", "delete"}

InvalidTable(table) == ErrorJson(400, <<"Invalid table name: ", table>>)

ValidationError == ErrorJson(500, <<"Internal server error while validating table name.">>)

\* the literal pieces of the templates of the dynamic routes
TemplatePieces ==
    {"SELECT COUNT(*) FROM ", "SELECT * FROM ", " LIMIT $1 OFFSET $2",
     "INSERT INTO ", " (", ", ", ") VALUES (", ") RETURNING *",
     "UPDATE ", " SET ", " = ", " WHERE id = ", " RETURNING *",
     "DELETE FROM ", " WHERE id = $1", "$1", "$2", "$3", "$4"}

\* the request passed the login gate and validateTableName
ReachedHandler(r) == pc[r] \in HandlerPcs \cup {"select"} \/ Len(qs[r]) >= 2

IsWrite(query) == query.text[1] \in {"INSERT INTO ", "UPDATE "}

HasValue(data, v) == \E i \in 1..Len(data) : data[i][1] # "id" /\ data[i][2] = v

BadPayload(data) ==
    Len(data) = 0 \/ \E i \in 1..Len(data) : ~IsSafeIdentifier(data[i][1])

Occurrences(rows, row) == Cardinality({i \in 1..Len(rows) : rows[i] = row})

\* C1: no database query is executed for a request whose session has no
\* logged-in user; an /api request of such a caller is answered by a redirect
\* to /login.
C1_NoQueryWithoutLogin ==
    \A r \in Slots :
        (pc[r] # "idle" /\ tmp[r].user = NoUser /\ IsApiRequest(req[r])) =>
            /\ qs[r] = <<>>
            /\ Done(r) => resp[r] = Redirect(<<"login">>)

\* C2: when validateTableName has its catalog, the route handler runs iff the
\* :table parameter is, character for character, a table of the catalog; any
\* other name is answered 400 Invalid table name with the catalog lookup as
\* the request's only query.
C2_ExactTableName ==
    [][\A r \in Slots :
        /\ (pc[r] = "catalog" /\ pc'[r] # "catalog" /\ resp'[r] # ValidationError) =>
              IF TableParam(req[r]) \in DOMAIN db
              THEN pc'[r] \in HandlerPcs /\ resp'[r] = NoResp
              ELSE /\ pc'[r] = "done"
                   /\ resp'[r] = InvalidTable(TableParam(req[r]))
                   /\ Len(qs'[r]) = 1
        /\ (pc'[r] \in HandlerPcs /\ pc[r] # pc'[r]) =>
              pc[r] = "catalog" /\ TableParam(req[r]) \in DOMAIN db
      ]_vars

\* C2 witness: a name that differs from a catalog table only by case is refused.
C2_Witness ==
    \E r \in Slots :
        /\ Done(r) /\ IsDynamic(r)
        /\ TableParam(req[r]) = "Items"
        /\ "items" \in DOMAIN db
        /\ resp[r] = InvalidTable("Items")

\* C3: in every SQL text of the dynamic select, insert, update and delete
\* routes the only caller-derived pieces are the validated table name and
\* column names that are identifiers; no data value is in the text.
C3_OnlyValidatedIdentifiers ==
    \A r \in Slots : IsDynamic(r) =>
        \A i \in 2..Len(qs[r]) : \A j \in 1..Len(qs[r][i].text) :
            \/ qs[r][i].text[j] \in TemplatePieces
            \/ /\ qs[r][i].text[j] = TableParam(req[r])
               /\ Includes(tmp[r].tableNames, TableParam(req[r]))
            \/ /\ \E k \in 1..Len(BodyData(req[r])) : qs[r][i].text[j] = BodyData(req[r])[k][1]
               /\ IsSafeIdentifier(qs[r][i].text[j])

\* C4: an insert or update whose payload carries the SQL text
\* '); DROP TABLE items; -- as a value sends one INSERT/UPDATE with the value
\* bound, leaves the catalog as it was and, when it succeeds, stores and
\* returns the string as it came.
C4_InjectionValueStoredLiterally ==
    [][\A r \in Slots :
        (pc[r] \in {"insert", "update"} /\ pc'[r] = "done"
            /\ HasValue(BodyData(req[r]), InjValue)) =>
            /\ DOMAIN db' = DOMAIN db
            /\ Len(qs'[r]) = Len(qs[r]) + 1
            /\ IsWrite(qs'[r][Len(qs'[r])])
            /\ ~Injected(qs'[r][Len(qs'[r])].text)
            /\ \E k \in 1..Len(qs'[r][Len(qs'[r])].params) :
                    qs'[r][Len(qs'[r])].params[k] = InjValue
            /\ resp'[r].kind = "row" =>
                  /\ resp'[r].row.name = InjValue
                  /\ Occurrences(db'["items"].rows, resp'[r].row) = 1
      ]_vars

\* C4 witness: the insert of {name: "'); DROP TABLE items; --"} answered 201.
C4_Witness ==
    \E r \in Slots :
        /\ Done(r) /\ tmp[r].handler = "post"
        /\ resp[r].status = 201 /\ resp[r].kind = "row"
        /\ resp[r].row.name = InjValue
        /\ Occurrences(db["items"].rows, resp[r].row) = 1

\* C5: an insert or update whose payload is empty or has a key that is not
\* an identifier is rejected with a 4xx and no INSERT or UPDATE reaches the
\* pool.
C5_BadPayloadRejected ==
    \A r \in Slots :
        (tmp[r].handler \in {"post", "put"} /\ ReachedHandler(r)
            /\ BadPayload(BodyData(req[r]))) =>
            /\ \A i \in 1..Len(qs[r]) : ~IsWrite(qs[r][i])
            /\ Done(r) => resp[r].status \in 400..499

\* the limit and offset the page query of request r was sent with
SentLimit(r) == qs[r][3].params[1]
SentOffset(r) == qs[r][3].params[2]

IsPage(r) == Done(r) /\ resp[r].kind = "page"

\* C6: a successful paginated read returns at most limit rows: at most the
\* limit of the query string when that is a positive integer, at most the
\* default 10 when it is absent, not a number or 0.
C6_AtMostLimitRows ==
    \A r \in Slots : IsPage(r) =>
        /\ req[r].limit.k = "int" => req[r].limit.n >= 0
        /\ Len(resp[r].data) <=
              IF req[r].limit.k = "int" /\ req[r].limit.n > 0 THEN req[r].limit.n ELSE 10

\* C6 witness: limit 1 cuts a table of two rows to one row.
C6_Witness ==
    \E r \in Slots :
        /\ IsPage(r) /\ req[r].limit = Num(1)
        /\ Len(resp[r].data) = 1
        /\ Len(db["items"].rows) = 2

\* C7: in a successful paginated read totalPages is ceil(totalItems / limit):
\* the least number of pages of limit rows that hold totalItems rows, for the
\* totalItems of the response and the limit the query was sent with.
C7_TotalPagesIsCeiling ==
    \A r \in Slots : IsPage(r) =>
        /\ SentLimit(r) >= 1
        /\ resp[r].totalPages * SentLimit(r) >= resp[r].totalItems
        /\ (resp[r].totalPages - 1) * SentLimit(r) < resp[r].totalItems
        /\ resp[r].totalPages >= 0

\* C7 witness: one row read with limit 2 is one page (the division is not exact).
C7_Witness ==
    \E r \in Slots :
        /\ IsPage(r) /\ SentLimit(r) = 2
        /\ resp[r].totalItems = 1 /\ resp[r].totalPages = 1

\* the read of request r asked, with a positive limit, for a page after the last
BeyondLastPage(r) ==
    /\ tmp[r].handler = "get" /\ Done(r) /\ Len(qs[r]) = 3
    /\ req[r].page.k = "int" /\ req[r].page.n >= 1
    /\ SentLimit(r) >= 1
    /\ (req[r].page.n - 1) * SentLimit(r) >= Len(db[Resolve(TableParam(req[r]))].rows)

\* C8: a paginated read of a page after the last one succeeds: unless the
\* connection fails it is answered 200 with no rows and with the requested
\* page as currentPage.
C8_PageBeyondLastIsEmpty ==
    \A r \in Slots : BeyondLastPage(r) =>
        IF resp[r].kind = "error"
        THEN resp[r].error[4] = "connection terminated"
        ELSE /\ resp[r].status = 200 /\ resp[r].kind = "page"
             /\ resp[r].data = <<>>
             /\ resp[r].currentPage = req[r].page.n

\* C8 witness: page 3 of a table of two rows, two rows a page.
C8_Witness ==
    \E r \in Slots :
        /\ BeyondLastPage(r) /\ resp[r].status = 200
        /\ req[r].page = Num(3) /\ req[r].limit = Num(2)
        /\ Len(db["items"].rows) = 2
        /\ resp[r].data = <<>> /\ resp[r].currentPage = 3

\* C9: whatever the page and limit parameters are, the page and limit of the
\* read are positive and the offset bound into the page query is
\* (page - 1) * limit and not negative.
C9_PositiveWindow ==
    \A r \in Slots : (tmp[r].handler = "get" /\ Len(qs[r]) >= 3) =>
        /\ SentLimit(r) >= 1
        /\ Page(req[r]) >= 1
        /\ SentOffset(r) = (Page(req[r]) - 1) * SentLimit(r)
        /\ SentOffset(r) >= 0

\* C10: a read of the whole table that follows a successful insert, with no
\* other change of the database in between, holds the inserted row exactly
\* once and reports one more item than the table had before the insert.
C10_InsertThenRead ==
    \A r \in Slots :
        (IsPage(r) /\ hist.op = "insert"
            /\ hist.table = Resolve(TableParam(req[r]))
            /\ Page(req[r]) = 1 /\ SentLimit(r) >= resp[r].totalItems) =>
            /\ Occurrences(resp[r].data, hist.row) = 1
            /\ resp[r].totalItems = hist.before + 1

\* C10 witness: the second row of items is read back with the first.
C10_Witness ==
    \E r \in Slots :
        /\ IsPage(r) /\ hist.op = "insert" /\ hist.before = 1
        /\ Page(req[r]) = 1 /\ SentLimit(r) >= resp[r].totalItems
        /\ resp[r].totalItems = 2
        /\ Occurrences(resp[r].data, hist.row) = 1
RowField(row, c) ==
    CASE c = "id" -> row.id [] c = "name" -> row.name [] c = "value" -> row.value

\* the row of the request's table that has the request's :id
TargetRow(r) ==
    LET rows == db[Resolve(TableParam(req[r]))].rows IN rows[RowIndex(rows, IdParam(req[r]))]

\* C11: the row a successful insert returns has the payload's value in every
\* payload column; the row a successful update returns has the payload's value
\* in every column the payload names and the row's former value in every
\* other column.
C11_InsertUpdateRoundTrip ==
    [][\A r \in Slots :
        /\ (pc[r] \in {"insert", "itemsInsert"} /\ pc'[r] = "done" /\ resp'[r].kind = "row") =>
              \A i \in 1..Len(BodyData(req[r])) :
                  RowField(resp'[r].row, BodyData(req[r])[i][1]) = BodyData(req[r])[i][2]
        /\ (pc[r] \in {"update", "itemsUpdate"} /\ pc'[r] = "done" /\ resp'[r].kind = "row") =>
              \A c \in {"id", "name", "value"} :
                  RowField(resp'[r].row, c) =
                      IF Field(BodyData(req[r]), c) # Undefined
                      THEN Field(BodyData(req[r]), c)
                      ELSE RowField(TargetRow(r), c)
      ]_vars

\* the response says the database connection failed under the request
ConnectionLost(response) ==
    \/ response = ValidationError
    \/ /\ response.kind = "error"
       /\ \E i \in 1..Len(response.error) : response.error[i] = "connection terminated"

NoContent == [status |-> 204, kind |-> "empty"]

IsDelete(q, id) == q = Send("DELETE", <<"api", "items", id>>, NoBody)

\* C12: a delete the database answers is answered 204 whether or not a row
\* had the id; afterwards no row has the id, and a delete that finds no row
\* with the id (a repeated delete) leaves the database as it was.
C12_DeleteIdempotent ==
    [][\A r \in Slots :
        (pc[r] = "delete" /\ pc'[r] = "done" /\ ~ConnectionLost(resp'[r])) =>
            LET t == Resolve(TableParam(req[r])) IN
            /\ resp'[r] = NoContent
            /\ RowIndex(db'[t].rows, IdParam(req[r])) = 0
            /\ RowIndex(db[t].rows, IdParam(req[r])) = 0 => db' = db
      ]_vars

\* C12 witness: row 1 is inserted, then deleted twice; both deletes are 204.
C12_Witness ==
    /\ Done(1) /\ resp[1].kind = "row" /\ resp[1].row.id = 1
    /\ IsDelete(req[2], 1) /\ Done(2) /\ resp[2] = NoContent
    /\ IsDelete(req[3], 1) /\ Done(3) /\ resp[3] = NoContent
    /\ db["items"].rows = <<>>

EmptyOk == [status |-> 200, kind |-> "empty"]

\* the request's :id is the id of no row of the request's table
NoSuchRow(r) == RowIndex(db[Resolve(TableParam(req[r]))].rows, IdParam(req[r])) = 0

\* C13: an update with a well-formed payload whose id matches no row is not
\* an error: unless the connection fails it is answered 200 with an empty
\* body, and the database is left as it was.
C13_UpdateOfNoRow ==
    [][\A r \in Slots :
        (pc[r] = "update" /\ pc'[r] = "done" /\ NoSuchRow(r)
            /\ ~BadPayload(BodyData(req[r])) /\ ~ConnectionLost(resp'[r])) =>
            /\ resp'[r] = EmptyOk
            /\ db' = db
      ]_vars

\* C13 witness: PUT /api/items/2 {value: "2"} on a table with no row 2.
C13_Witness ==
    \E r \in Slots :
        /\ Done(r) /\ tmp[r].handler = "put" /\ resp[r] = EmptyOk
        /\ req[r].body = Json(PValue) /\ IdParam(req[r]) = 2
        /\ "items" \in DOMAIN db /\ NoSuchRow(r)

\* the exchange of the end-to-end scenario, and the row it creates
Scenario ==
    <<Send("POST", <<"api", "items">>, Json(PBoth)),
      Get(<<"api", "items">>, Num(1), Num(10)),
      Send("DELETE", <<"api", "items", 1>>, NoBody),
      Get(<<"api", "items">>, Absent, Absent)>>

RowA == [id |-> 1, name |-> "A", value |-> "1"]

Expected(k, response) ==
    CASE k = 1 -> response = [status |-> 201, kind |-> "row", row |-> RowA]
      [] k = 2 -> response = [status |-> 200, kind |-> "page", totalItems |-> 1,
                              currentPage |-> 1, totalPages |-> 1, data |-> <<RowA>>]
      [] k = 3 -> response = NoContent
      [] OTHER -> response.status = 200 /\ response.kind = "page" /\ response.totalItems = 0

\* the first k requests were the scenario's and the connection held under each
Followed(k) ==
    \A j \in 1..k : req[j] = Scenario[j] /\ Done(j) /\ ~ConnectionLost(resp[j])

\* C14: from an empty items table, POST {name: "A", value: "1"}, GET page 1
\* limit 10, DELETE 1, GET are answered, in that order and unless the
\* connection fails, 201 with row {id 1, name "A", value "1"}; 200 with
\* totalItems 1, currentPage 1, totalPages 1 and that row as data; 204; and a
\* page with totalItems 0.
C14_EndToEnd ==
    \A k \in 1..Len(Scenario) : Followed(k) => Expected(k, resp[k])

\* C14 witness: the four requests of the scenario are answered as the scenario says.
C14_Witness ==
    /\ Followed(4)
    /\ \A k \in 1..4 : Expected(k, resp[k])
    /\ db["items"] = [rows |-> <<>>, nextId |-> 2]

IsCreateTable(q) == q.method = "POST" /\ q.path = <<"api", "create-table">>

\* C15: a POST /api/create-table of a logged-in caller with a tableName and
\* an array of columns reaches the create-table handler: unless the connection
\* fails, its one query is the CREATE TABLE of the supplied name and it is
\* answered 201.
C15_CreateTableReached ==
    \A r \in Slots :
        (Done(r) /\ IsCreateTable(req[r]) /\ tmp[r].user # NoUser
            /\ ~ConnectionLost(resp[r])) =>
            /\ resp[r].status = 201
            /\ Len(qs[r]) = 1
            /\ qs[r][1].text[1] = "CREATE TABLE "
            /\ qs[r][1].text[2] = Field(BodyData(req[r]), "tableName")

IsListTables(q) == q.method = "GET" /\ q.path = <<"api", "tables">>

\* the names of the sequence are exactly the tables of the catalog, each once
ExactlyCatalog(names) ==
    /\ {names[i] : i \in 1..Len(names)} = DOMAIN db
    /\ Len(names) = Cardinality(DOMAIN db)

\* C16: in index.js a GET /api/tables of a logged-in caller is handled by the
\* table-list route, never as a read of a table named tables: its one query
\* is the catalog query and, unless that fails, it is answered 200 with
\* exactly the table names of the catalog.
C16_ListTables ==
    \A r \in Slots :
        (variant = "index" /\ Done(r) /\ IsListTables(req[r]) /\ tmp[r].user # NoUser) =>
            /\ tmp[r].handler = "listTables"
            /\ Len(qs[r]) = 1
            /\ qs[r][1].text = CatalogText
            /\ IF qs[r][1].ok
               THEN resp[r].status = 200 /\ resp[r].kind = "tables"
                    /\ ExactlyCatalog(resp[r].tables)
               ELSE resp[r] = ErrorJson(500, <<"Failed to fetch tables">>)

\* C16 witness: the list is answered while the catalog has no table named tables.
C16_Witness ==
    \E r \in Slots :
        /\ variant = "index" /\ Done(r) /\ IsListTables(req[r])
        /\ resp[r].status = 200 /\ resp[r].kind = "tables"
        /\ resp[r].tables = <<"items">>
        /\ "tables" \notin DOMAIN db

\* C17: the ad-hoc SQL endpoint sends the caller's query, as it came and with
\* no parameters, to the pool in one query whatever the text is; when the
\* query succeeds the answer is 200 with the rows, when it fails the answer
\* is 400 with the database's message as the error.
C17_SqlPassthrough ==
    [][\A r \in Slots :
        (pc[r] = "sql" /\ pc'[r] # "sql") =>
            /\ pc'[r] = "done"
            /\ qs'[r] = <<[text |-> req[r].body.query, params |-> <<>>,
                           ok |-> qs'[r][1].ok]>>
            /\ \E o \in Outcomes(db, req[r].body.query, <<>>) :
                /\ o.ok = qs'[r][1].ok
                /\ db' = o.db
                /\ resp'[r] = IF o.ok THEN [status |-> 200, kind |-> "rows", rows |-> o.rows]
                              ELSE ErrorJson(400, <<o.msg>>)
      ]_vars

\* C17 witness: a text that is no SQL is sent and the database's complaint relayed.
C17_Witness ==
    \E r \in Slots :
        /\ Done(r) /\ tmp[r].handler = "sqlPlayground"
        /\ req[r].body.query = <<"not sql">>
        /\ Len(qs[r]) = 1 /\ qs[r][1].text = <<"not sql">>
        /\ resp[r] = ErrorJson(400, <<"syntax error">>)

\* C18: the ad-hoc SQL endpoint answers a successful query with a CSV body
\* when the query string has download=csv, and with the JSON object {rows}
\* otherwise.
C18_CsvDownload ==
    \A r \in Slots :
        (Done(r) /\ tmp[r].handler = "sqlPlayground" /\ Len(qs[r]) = 1 /\ qs[r][1].ok) =>
            IF req[r].download = "csv" THEN resp[r].kind = "csv"
            ELSE resp[r].kind = "rows"

\* C19: a failed pool query ends its request with an error response in the
\* same step; no query follows a failed one in a request, and a request that
\* was answered sends no further query and no second response.
C19_FailedQueryEndsRequest ==
    [][\A r \in Slots :
        /\ Len(qs'[r]) > Len(qs[r]) =>
            /\ Len(qs'[r]) = Len(qs[r]) + 1
            /\ SubSeq(qs'[r], 1, Len(qs[r])) = qs[r]
            /\ \A i \in 1..Len(qs[r]) : qs[r][i].ok
            /\ ~qs'[r][Len(qs'[r])].ok =>
                  /\ pc[r] # "done" /\ pc'[r] = "done"
                  /\ resp[r] = NoResp
                  /\ resp'[r].kind = "error" /\ resp'[r].status \in 400..599
        /\ (pc[r] = "done" /\ pc'[r] # "idle") => (qs'[r] = qs[r] /\ resp'[r] = resp[r])
      ]_vars

\* C19 witness: the count of a read fails; the request ends without its page query.
C19_Witness ==
    \E r \in Slots :
        /\ Done(r) /\ tmp[r].handler = "get"
        /\ Len(qs[r]) = 2 /\ qs[r][1].ok /\ ~qs[r][2].ok
        /\ resp[r].kind = "error" /\ resp[r].status = 500

\* the messages the database gives its errors
DatabaseMessages ==
    {"connection terminated", "cannot insert multiple commands into a prepared statement",
     "syntax error", "relation does not exist", "column does not exist",
     "column specified more than once", "reached maximum value of sequence",
     "LIMIT must not be negative", "OFFSET must not be negative",
     "relation already exists", "table does not exist",
     "duplicate key value violates unique constraint"}

CarriesDatabaseMessage(response) ==
    response.kind = "error" /\ \E i \in 1..Len(response.error) : response.error[i] \in DatabaseMessages

\* C20: no error response of a route other than the ad-hoc SQL endpoint
\* carries the database's error text.
C20_GenericErrors ==
    \A r \in Slots :
        (Done(r) /\ tmp[r].handler # "sqlPlayground") => ~CarriesDatabaseMessage(resp[r])

DropDone(j) == req[j] = DropItems /\ Done(j) /\ resp[j].status = 200

CreateDone(j) == req[j] = CreateItems /\ Done(j) /\ resp[j].status = 201

\* request k reads items, and request j before it was the last to change the schema
ReadsAfter(j, k) ==
    /\ j < k /\ req[k] = ReadItems /\ Done(k) /\ ~ConnectionLost(resp[k])
    /\ \A i \in (j + 1)..(k - 1) : ~DropDone(i) /\ ~CreateDone(i)

\* C21: the catalog is read anew by every request: a read of items that
\* starts after items was dropped is answered 400 Invalid table name, and a
\* read that starts after items was created is accepted and answered with a
\* page, however the table stood for earlier requests.
C21_CatalogNotCached ==
    \A j, k \in Slots : ReadsAfter(j, k) =>
        /\ DropDone(j) => resp[k] = InvalidTable("items")
        /\ CreateDone(j) => resp[k].status = 200 /\ resp[k].kind = "page"

\* C21 witness: items is dropped, read (400), created again, read (200).
C21_Witness ==
    /\ DropDone(1)
    /\ ReadsAfter(1, 2) /\ resp[2] = InvalidTable("items")
    /\ CreateDone(3)
    /\ ReadsAfter(3, 4) /\ resp[4].status = 200 /\ resp[4].kind = "page"

\* C26: when the catalog query of validateTableName fails, the request is
\* answered 500 and ends there: the catalog query is its only query, so the
\* route handler sent none against the named table.
C26_CatalogFailure ==
    \A r \in Slots :
        (IsDynamic(r) /\ Len(qs[r]) >= 1 /\ ~qs[r][1].ok) =>
            /\ Done(r)
            /\ resp[r] = ValidationError
            /\ Len(qs[r]) = 1

\* C26 witness: an insert whose validation lost the connection.
C26_Witness ==
    \E r \in Slots :
        /\ Done(r) /\ tmp[r].handler = "post" /\ TableParam(req[r]) = "items"
        /\ Len(qs[r]) = 1 /\ ~qs[r][1].ok /\ qs[r][1].text = CatalogText
        /\ resp[r] = ValidationError
        /\ db["items"].rows = <<>>

UniqueViolation == "duplicate key value violates unique constraint"

\* the database refused the last query of request r for a reason of its own
Rejected(query) == ~query.ok

TableDropped(r) ==
    /\ pc[r] \in HandlerPcs \cup {"select"}
    /\ Resolve(TableParam(req[r])) \notin DOMAIN db

\* C25: a request whose table was dropped after validateTableName accepted
\* it ends at its next query with one 500 JSON error; that query names the
\* request's table only and the database is left as it was.
C25_DroppedInFlight ==
    [][\A r \in Slots :
        (TableDropped(r) /\ pc'[r] # pc[r]) =>
            /\ pc'[r] = "done"
            /\ resp[r] = NoResp
            /\ resp'[r].kind = "error" /\ resp'[r].status = 500
            /\ Len(qs'[r]) = Len(qs[r]) + 1
            /\ qs'[r][Len(qs'[r])].text[2] = TableParam(req[r])
            /\ db' = db
      ]_vars

\* C25 witness: items is dropped between the validation and the count of a read.
C25_Witness ==
    \E r \in Slots :
        /\ Done(r) /\ tmp[r].handler = "get" /\ TableParam(req[r]) = "items"
        /\ Len(qs[r]) = 2 /\ qs[r][1].ok /\ ~qs[r][2].ok
        /\ Includes(tmp[r].tableNames, "items")
        /\ resp[r].status = 500 /\ resp[r].kind = "error"
        /\ Len(resp[r].error) = 4 /\ resp[r].error[4] = "relation does not exist"
        /\ "items" \notin DOMAIN db

\* C29: a page is consistent with the count reported beside it: data has no
\* more rows than totalItems, and exactly totalItems rows when the page is
\* the first and the limit is at least totalItems.
C29_ConsistentPage ==
    \A r \in Slots : IsPage(r) =>
        /\ Len(resp[r].data) <= resp[r].totalItems
        /\ (Page(req[r]) = 1 /\ SentLimit(r) >= resp[r].totalItems) =>
              Len(resp[r].data) = resp[r].totalItems

\* request r is a finished POST /login
IsLogin(r) == Done(r) /\ tmp[r].handler = "login"

\* the login was accepted: the caller is sent on, not back to the login page
Accepted(r) == resp[r].kind = "redirect" /\ resp[r].location # <<"login">>

\* C24: every POST /login appends exactly one entry to the login log, with
\* status Success when the login was accepted and Failure otherwise.
C24_OneLogEntry ==
    \A r \in Slots : IsLogin(r) =>
        /\ Len(tmp[r].logged) = 1
        /\ tmp[r].logged[1].status = IF Accepted(r) THEN "Success" ELSE "Failure"

\* C28: in index.js a POST /login puts the user into the session exactly when
\* the user is known and the password matches the stored hash; it then
\* redirects to the URL saved by the last refusal (or /sql-playground) and
\* clears it; otherwise the session is left as it was and the caller is
\* redirected to /login.
C28_LoginOutcome ==
    [][\A r \in Slots :
        (variant = "index" /\ pc[r] = "idle" /\ pc'[r] = "done" /\ tmp'[r].handler = "login") =>
            LET username == req'[r].body.username
                password == req'[r].body.password
            IN  IF KnownUser(username) /\ users[username] = Hash(password)
                THEN /\ session'.user = username
                     /\ session'.redirectTo = NoUrl
                     /\ resp'[r] = Redirect(IF session.redirectTo # NoUrl
                                            THEN session.redirectTo
                                            ELSE <<"sql-playground">>)
                ELSE /\ session' = session
                     /\ resp'[r] = Redirect(<<"login">>)
      ]_vars

(***************************************************************************)
(* Sessions over time: requests of one browser, one after the other, with  *)
(* time passing between them.                                              *)
(***************************************************************************)
\* minutes that pass in one step of the clock
TickMinutes == 6

\* Time passes while the store holds the session.
Tick ==
    /\ session # NoSession
    /\ ~Expired(session.stored)
    /\ session' = [session EXCEPT !.age = IF Expired(@) THEN @ ELSE @ + TickMinutes,
                                  !.stored = @ + TickMinutes]
    /\ UNCHANGED <<variant, limiter, db, pc, req, qs, tmp, resp, hist>>

LogoutRequest == Get(<<"logout">>, Absent, Absent)

ProtectedRequests ==
    {Get(<<"api", "tables">>, Absent, Absent), Get(<<"api-docs">>, Absent, Absent),
     Get(<<"sql-playground">>, Absent, Absent)}

\* the same request from a client that sends the cookie whatever its age
Replayed(q) == [q EXCEPT !.cookie = "replayed"]

BrowserRequests ==
    {Send("POST", <<"login">>, [kind |-> "login", username |-> u, password |-> "secret"]) :
        u \in {"admin", "mallory"}}
    \cup {LogoutRequest, Get(<<"login">>, Absent, Absent)} \cup ProtectedRequests

ClientRequests ==
    BrowserRequests
    \cup {Replayed(Get(<<"login">>, Absent, Absent)), Replayed(Get(<<"api", "tables">>, Absent, Absent))}

SessionInit == Init /\ variant = "index"

SessionNext ==
    \/ \E r \in Slots, q \in ClientRequests :
          (IF r = 1 THEN TRUE ELSE pc[r - 1] = "done") /\ Receive(r, q)
    \/ \E r \in Slots : ListTables(r)
    \/ Tick

SessionSpec == SessionInit /\ [][SessionNext]_vars

\* /api/*, /api-docs and /sql-playground
IsProtected(q) ==
    \/ Len(q.path) >= 1 /\ q.path[1] \in {"api", "api-docs"}
    \/ q.path = <<"sql-playground">>

IsLogout(r) == Done(r) /\ tmp[r].handler = "logout"

\* C30: in index.js, once GET /logout was answered, every later request to a
\* protected route is redirected to /login and runs no database query, as
\* long as no POST /login was accepted in between.
C30_LoggedOut ==
    \A j \in Slots, k \in Slots :
        (/\ variant = "index"
         /\ j < k
         /\ IsLogout(j)
         /\ pc[k] # "idle"
         /\ IsProtected(req[k])
         /\ \A i \in (j + 1)..(k - 1) : ~(IsLogin(i) /\ Accepted(i))) =>
            /\ Done(k)
            /\ resp[k] = Redirect(<<"login">>)
            /\ qs[k] = <<>>

\* C30 witness: admin logs in, reads the table list, logs out and asks for the
\* table list again.
C30_Witness ==
    /\ variant = "index"
    /\ IsLogin(1) /\ Accepted(1)
    /\ Done(2) /\ tmp[2].handler = "listTables" /\ resp[2].status = 200
    /\ IsLogout(3)
    /\ Done(4) /\ req[4].path = <<"api", "tables">>
    /\ resp[4] = Redirect(<<"login">>) /\ qs[4] = <<>>

\* request r arrives in this step
Arrives(r) == pc[r] = "idle" /\ pc'[r] # "idle"

\* C23: in index.js a logged-in session lasts 10 minutes from its last
\* request that passed requireLogin: a protected request arriving later than
\* that is redirected to /login as unauthenticated, one arriving within it is
\* let through and restarts the period.
C23_SessionExpiry ==
    [][\A r \in Slots :
        (variant = "index" /\ Arrives(r) /\ session.user # NoUser /\ IsProtected(req'[r])) =>
            IF session.age > 10
            THEN /\ pc'[r] = "done"
                 /\ resp'[r] = Redirect(<<"login">>)
                 /\ qs'[r] = <<>>
                 /\ session'.user = NoUser
            ELSE /\ resp'[r].kind # "redirect"
                 /\ session'.user = session.user
                 /\ session'.age = 0
      ]_vars

(***************************************************************************)
(* Rate limiting (index.js:93-102, routes/crud.js:266-270): each limiter   *)
(* counts the requests of an address in its own window and answers 429     *)
(* once the count is over its max.                                         *)
(***************************************************************************)
AppMax == 100
RouterMax == 50

TooManyRequests == "Too many requests from this IP, please try again after 15 minutes."

\* variant: one request more let through
ExceededLate(current, max) == current > max + 1

\* the request that makes the count `current` is over the limit
Exceeded(current, max) == current > max

\* the count after one more request; counts over the limit are all alike
Counted(n, max) == IF Exceeded(n, max) THEN n ELSE n + 1

\* app.use(apiLimiter): only the app of index.js limits every request
AppLimits == variant = "index"

\* the router's limiter is the first middleware of each of its routes
RouterLimits(q) ==
    /\ Handler(q.method, q.path) \in {"get", "post", "put", "delete", "createTable"}
    /\ ~(Gated(q.method, q.path) /\ Live(q).user = NoUser)

\* A request over the app's limit is answered by the limiter.
AppLimited(r, q) ==
    /\ pc[r] = "idle"
    /\ AppLimits /\ Exceeded(limiter.app + 1, AppMax)
    /\ limiter' = [limiter EXCEPT !.app = Counted(@, AppMax)]
    /\ req' = [req EXCEPT ![r] = q]
    /\ qs' = [qs EXCEPT ![r] = <<>>]
    /\ tmp' = [tmp EXCEPT ![r] = [NoTmp EXCEPT !.user = Live(q).user]]
    /\ session' = Touched(Live(q))
    /\ Respond(r, ErrorJson(429, <<TooManyRequests>>))
    /\ UNCHANGED <<variant, db, hist>>

\* A request over the router's limit is answered by the router's limiter.
RouterLimited(r, q) ==
    /\ pc[r] = "idle"
    /\ ~(AppLimits /\ Exceeded(limiter.app + 1, AppMax))
    /\ RouterLimits(q) /\ Exceeded(limiter.router + 1, RouterMax)
    /\ limiter' = [app |-> IF AppLimits THEN limiter.app + 1 ELSE limiter.app,
                   router |-> Counted(limiter.router, RouterMax)]
    /\ req' = [req EXCEPT ![r] = q]
    /\ qs' = [qs EXCEPT ![r] = <<>>]
    /\ tmp' = [tmp EXCEPT ![r] = [NoTmp EXCEPT !.user = Live(q).user]]
    /\ session' = Passed(q)
    /\ Respond(r, [status |-> 429, kind |-> "text", text |-> TooManyRequests])
    /\ UNCHANGED <<variant, db, hist>>

\* A request within the limits is counted and handed on.
Admit(r, q) ==
    /\ ~(AppLimits /\ Exceeded(limiter.app + 1, AppMax))
    /\ ~(RouterLimits(q) /\ Exceeded(limiter.router + 1, RouterMax))
    /\ limiter' = [app |-> IF AppLimits THEN limiter.app + 1 ELSE limiter.app,
                   router |-> IF RouterLimits(q) THEN limiter.router + 1 ELSE limiter.router]
    /\ Dispatch(r, q)

\* windowMs has passed since the app limiter's window began
AppWindowElapses ==
    /\ limiter.app > 0
    /\ limiter' = [limiter EXCEPT !.app = 0]
    /\ UNCHANGED <<variant, session, db, pc, req, qs, tmp, resp, hist>>

\* windowMs has passed since the router limiter's window began
RouterWindowElapses ==
    /\ limiter.router > 0
    /\ limiter' = [limiter EXCEPT !.router = 0]
    /\ UNCHANGED <<variant, session, db, pc, req, qs, tmp, resp, hist>>

RateRequests ==
    {Send("POST", <<"login">>, [kind |-> "login", username |-> "admin", password |-> "secret"]),
     Get(<<"login">>, Absent, Absent),
     Get(<<"api", "items">>, Absent, Absent)}

RateNext ==
    \/ \E q \in RateRequests : AppLimited(1, q)
    \/ \E q \in RateRequests : RouterLimited(1, q)
    \/ \E q \in RateRequests : Admit(1, q)
    \/ ValidateTableName(1)
    \/ GetCount(1)
    \/ GetSelect(1)
    \/ Finish(1)
    \/ AppWindowElapses
    \/ RouterWindowElapses

RateSpec == PageInit /\ [][RateNext]_vars

\* C22: the app of index.js counts the requests of an address per window:
\* while fewer than 100 were counted the next one is counted too, whatever
\* its route; once 100 were counted every further request is answered 429
\* with the 'Too many requests' message, reaches no route handler and sends
\* no query; the count only goes back at the end of the window, and then to
\* zero.
C22_FixedWindow ==
    [][/\ \A r \in Slots :
            (variant = "index" /\ Arrives(r)) =>
                IF limiter.app >= 100
                THEN /\ pc'[r] = "done"
                     /\ resp'[r] = ErrorJson(429, <<TooManyRequests>>)
                     /\ tmp'[r].handler = "none"
                     /\ qs'[r] = <<>>
                     /\ db' = db
                ELSE /\ limiter'.app = limiter.app + 1
                     /\ resp'[r].status # 429 \/ RouterLimits(req'[r])
       /\ limiter'.app < limiter.app =>
            /\ limiter'.app = 0
            /\ pc' = pc /\ resp' = resp /\ qs' = qs
      ]_vars

\* C22 witness: the 101st request of the window, a POST /login, is rejected.
C22_Witness ==
    /\ limiter.app = 101
    /\ Done(1) /\ req[1].path = <<"login">> /\ req[1].method = "POST"
    /\ resp[1] = ErrorJson(429, <<TooManyRequests>>)
    /\ tmp[1].handler = "none" /\ qs[1] = <<>>

====
